---- MODULE Spec2Model ----
(***************************************************************************)
(* A state-machine model of skyscan-c2 (src/skyscan-c2/c2_pub_sub.py):     *)
(* the C2PubSub object, its configuration callback and its target          *)
(* selection callback.  Each MQTT callback runs to completion on the       *)
(* client's network thread, so each callback is one action.                *)
(*                                                                         *)
(* Abstraction of the geometry: a ledger row carries, besides its index    *)
(* (the object id) and its altitude, the camera pan, the camera tilt and   *)
(* the great-circle distance that _calculate_camera_angles and             *)
(* _relative_distance_meters compute from its position at evaluation time. *)
(* All quantities are integers; the distance-improvement threshold is a    *)
(* rational num/den.                                                       *)
(*                                                                         *)
(* Specifications: Spec (ledger, override and configuration messages),     *)
(* SpecGate (one-row ledgers over the gate domains, with occlusion         *)
(* mappings), SpecFault (ledgers whose frame lacks a column, payloads with *)
(* both keys), SpecConfig (every configuration section), SpecCycle (the    *)
(* annotation statement by statement, next to the configuration callback)  *)
(* and SpecPredict (the lead of the position in the ENz frame).            *)
(***************************************************************************)
EXTENDS Integers, Sequences, FiniteSets

\* ------------------------------------------------------------------ bounds

\* Largest great-circle distance of a row.
MaxDistance == 11

\* Largest number of keys in the "skyscan-c2" section of one configuration
\* message.
MaxConfigKeys == 2

\* ------------------------------------------------------------ input domains

\* Object ids (the index of the ledger data frame), in index order.
Ids == <<"a", "b">>

\* Python's None for a string-valued attribute.
NoneStr == "<None>"

\* Values an ObjectIDOverride key can carry, after str().
OverrideValues == {"b", "clear"}

\* Altitude, camera tilt and camera pan of the rows of a ledger.
Altitudes == {1}

Tilts == {1}

Pans == {0}

Distances == 9..MaxDistance

\* Line-of-sight distance of the rows of a ledger.
Distances3d == {12}

\* The keys _calculate_camera_angles requires of a row.
RequiredKeys ==
    {"timestamp", "latitude", "longitude", "altitude", "track",
     "horizontal_velocity", "vertical_velocity"}

\* The columns of an incoming ledger that the callback reads by name: the
\* required keys and the columns the Selected Object payload indexes.
LedgerColumns ==
    RequiredKeys \cup {"object_type", "flight", "squawk", "category", "emergency"}

\* lead_time values the constructor is given.
LeadTimes == {1}

\* Values the constructor and a configuration message can carry for each
\* bound: around the altitude and the tilt of the rows.
MinTilts == {1, 2}

MaxTilts == {0, 1}

MinAltitudes == {1, 2}

MaxAltitudes == {0, 1}

\* object_distance_threshold values the constructor is given.
DistanceThresholds == {10}

\* distance_improvement_threshold values the constructor is given (0.1 is the
\* default of DISTANCE_IMPROVEMENT_THRESHOLD), as rationals.
ImprovementThresholds == {[num |-> 0, den |-> 1], [num |-> 1, den |-> 10]}

\* Python's None for the tracked row.
None == [name |-> NoneStr]

\* The rows of an incoming ledger.
Rows ==
    [name : {Ids[i] : i \in DOMAIN Ids}, altitude : Altitudes,
     relative_distance : Distances, camera_pan : Pans, camera_tilt : Tilts,
     distance_3d : Distances3d]

IdIndex(id) == CHOOSE i \in DOMAIN Ids : Ids[i] = id

\* The index of a ledger is unique (the JSON object is keyed by object id);
\* rows are enumerated in the order of Ids, which the callback reads only
\* through its sort.
Ordered(s) ==
    \A i \in 1..(Len(s) - 1) : IdIndex(s[i].name) < IdIndex(s[i + 1].name)

\* The ledgers a message can carry.
Ledgers ==
    UNION { { s \in [1..n -> Rows] : Ordered(s) } : n \in 0..Len(Ids) }

\* Inputs of the gate specification SpecGate: one row per ledger, over every
\* tilt, pan and altitude around the bounds, with and without an occlusion
\* mapping.
GateMinTilts == {1, 2}

GateMaxTilts == {1, 2}

\* Altitude limits of the gate specification: a minimum below, equal to and
\* above the maximum.
GateMinAltitudes == {0, 1}

GateMaxAltitudes == {0, 1}

GateRows ==
    [name : {"a"}, altitude : 0..2, relative_distance : {10, 11},
     camera_pan : 0..2, camera_tilt : 0..3, distance_3d : Distances3d]

\* Occlusion mappings the constructor can load: sequences of
\* (azimuth, elevation) points.
OcclusionMappings ==
    { <<>>,
      <<[azimuth |-> 1, elevation |-> 0]>>,
      <<[azimuth |-> 1, elevation |-> 1], [azimuth |-> 2, elevation |-> 0]>> }

VARIABLES
    min_tilt, max_tilt, min_altitude, max_altitude,
    object_distance_threshold, distance_improvement_threshold,
    occlusion_mapping_enabled, occlusion_mapping, lead_time,
    override_object, tracked_object,
    published,          \* the messages the last callback published, in order
    event,              \* the last callback, what its message carried (the
                        \* index of its ledger, the columns its frame
                        \* lacked, its override id) and how far the
                        \* callback got
    tracked0,           \* tracked_object.name when the last callback started
    override0,          \* override_object when the last callback started
    potential_target,   \* the potential target the last callback chose
    probe               \* the input and the result of the last probed step

vars ==
    <<min_tilt, max_tilt, min_altitude, max_altitude,
      object_distance_threshold, distance_improvement_threshold,
      occlusion_mapping_enabled, occlusion_mapping, lead_time,
      override_object, tracked_object,
      published, event, tracked0, override0, potential_target, probe>>

config == <<min_tilt, max_tilt, min_altitude, max_altitude>>

fixed ==
    <<object_distance_threshold, distance_improvement_threshold,
      occlusion_mapping_enabled, occlusion_mapping, lead_time>>

\* ------------------------------------------------------------ pure helpers

\* Truth value of "if self.override_object:": None and "" are falsy.
Truthy(o) == o # NoneStr /\ o # ""

\* Mutant of DecidingPoint: the loop runs on, and the last point whose
\* azimuth exceeds the pan decides.
DecidingPointLast(azimuth) ==
    CHOOSE i \in 1..Len(occlusion_mapping) :
        /\ \/ occlusion_mapping[i].azimuth > azimuth
           \/ i = Len(occlusion_mapping)
        /\ \A j \in (i + 1)..Len(occlusion_mapping) :
               ~(occlusion_mapping[j].azimuth > azimuth)

\* The occlusion point that decides: the first whose azimuth exceeds the pan,
\* or the last one.
DecidingPoint(azimuth) ==
    CHOOSE i \in 1..Len(occlusion_mapping) :
        /\ \/ occlusion_mapping[i].azimuth > azimuth
           \/ i = Len(occlusion_mapping)
        /\ \A j \in 1..(i - 1) : ~(occlusion_mapping[j].azimuth > azimuth)

\* Mutant of _elevation_check: the range check excludes its lower bound.
_elevation_check_exclusive(azimuth, elevation) ==
    IF occlusion_mapping_enabled
    THEN IF Len(occlusion_mapping) > 0
         THEN /\ max_tilt > elevation
              /\ elevation > occlusion_mapping[DecidingPoint(azimuth)].elevation
         ELSE min_tilt > elevation
    ELSE min_tilt < elevation /\ elevation <= max_tilt

_elevation_check(azimuth, elevation) ==
    IF occlusion_mapping_enabled
    THEN IF Len(occlusion_mapping) > 0
         THEN /\ max_tilt > elevation
              /\ elevation > occlusion_mapping[DecidingPoint(azimuth)].elevation
         ELSE min_tilt > elevation
    ELSE min_tilt <= elevation /\ elevation <= max_tilt

tilt_fail(x) == ~_elevation_check(x.camera_pan, x.camera_tilt)

\* Mutant of min_altitude_fail: an altitude equal to the minimum fails.
min_altitude_fail_inclusive(x) == x.altitude <= min_altitude

min_altitude_fail(x) == x.altitude < min_altitude

max_altitude_fail(x) == x.altitude > max_altitude

\* Pan, tilt and line-of-sight distance of row x of a frame with the given
\* columns: zeros when a required key is missing.
_calculate_camera_angles(x, columns) ==
    IF RequiredKeys \subseteq columns
    THEN [camera_pan |-> x.camera_pan, camera_tilt |-> x.camera_tilt,
          distance_3d |-> x.distance_3d]
    ELSE [camera_pan |-> 0, camera_tilt |-> 0, distance_3d |-> 0]

\* The ledger of msg with the columns the callback appends.
object_ledger_df(msg) ==
    [i \in 1..Len(msg.ObjectLedger) |->
        LET x == msg.ObjectLedger[i]
            angles == _calculate_camera_angles(x, msg.columns)
        IN  [name |-> x.name,
             altitude |-> x.altitude,
             target |-> FALSE,
             selectable |-> FALSE,
             camera_pan |-> angles.camera_pan,
             camera_tilt |-> angles.camera_tilt,
             distance_3d |-> angles.distance_3d,
             relative_distance |-> x.relative_distance,
             tilt_fail |-> tilt_fail(angles),
             min_altitude_fail |-> min_altitude_fail(x),
             max_altitude_fail |-> max_altitude_fail(x)]]

\* Mutant of Selectable: the tilt flag is left out of the criteria.
SelectableIgnoringTilt(x) ==
    /\ x.relative_distance <= object_distance_threshold
    /\ x.min_altitude_fail = FALSE
    /\ x.max_altitude_fail = FALSE

Selectable(x) ==
    /\ x.relative_distance <= object_distance_threshold
    /\ x.tilt_fail = FALSE
    /\ x.min_altitude_fail = FALSE
    /\ x.max_altitude_fail = FALSE

\* The subset of the ledger that meets the criteria, in ledger order: a copy
\* of those rows, on which selectable is set.
target_ledger_df(df) ==
    LET subset == SelectSeq(df, Selectable)
    IN  [i \in DOMAIN subset |-> [subset[i] EXCEPT !.selectable = TRUE]]

\* The rows sort_values(by="relative_distance").iloc[0] can return:
\* sort_values uses kind="quicksort", which is not a stable sort, so any row
\* of minimum distance can come first.
potential_targets(tdf) ==
    { [tdf[i] EXCEPT !.target = TRUE] : i \in { k \in 1..Len(tdf) :
          \A j \in 1..Len(tdf) :
              tdf[k].relative_distance <= tdf[j].relative_distance } }

\* Mutant of distance_improvement_exceeds: >= in place of >.
distance_improvement_reaches(cur, pot) ==
    /\ cur.relative_distance > 0
    /\ (cur.relative_distance - pot.relative_distance)
           * distance_improvement_threshold.den
       >= distance_improvement_threshold.num * cur.relative_distance

\* distance_improvement_percent > self.distance_improvement_threshold, for
\* (cur - pot) / cur over floats: a zero divisor gives nan, which compares
\* False.
distance_improvement_exceeds(cur, pot) ==
    /\ cur.relative_distance > 0
    /\ (cur.relative_distance - pot.relative_distance)
           * distance_improvement_threshold.den
       > distance_improvement_threshold.num * cur.relative_distance

\* Mutant of OverrideSelection: the override id is looked up among the rows
\* that meet the criteria.
OverrideSelectionGated(df) ==
    LET selection_df ==
            SelectSeq(target_ledger_df(df), LAMBDA x : x.name = override_object)
    IN  IF selection_df # <<>>
        THEN [tracked |-> selection_df[1], override |-> override_object]
        ELSE [tracked |-> None, override |-> NoneStr]

\* Mutant of OverrideSelection: an override is used up by the cycle that
\* selects its row.
OverrideSelectionOnce(df) ==
    LET selection_df == SelectSeq(df, LAMBDA x : x.name = override_object)
    IN  IF selection_df # <<>>
        THEN [tracked |-> selection_df[1], override |-> NoneStr]
        ELSE [tracked |-> None, override |-> NoneStr]

\* The override branch: the row whose index is the override id, or nothing
\* and the override cleared.
OverrideSelection(df) ==
    LET selection_df == SelectSeq(df, LAMBDA x : x.name = override_object)
    IN  IF selection_df # <<>>
        THEN [tracked |-> selection_df[1], override |-> override_object]
        ELSE [tracked |-> None, override |-> NoneStr]

\* Mutant of StandardSelection: a tracked object that dropped out of the
\* criteria is given up instead of replaced.
StandardSelectionDropping(tdf, pot) ==
    IF tdf # <<>>
    THEN IF tracked_object # None
         THEN LET current_target_ledger ==
                      SelectSeq(tdf, LAMBDA x : x.name = tracked_object.name)
              IN  IF current_target_ledger # <<>>
                  THEN IF distance_improvement_exceeds(
                              current_target_ledger[1], pot)
                       THEN pot
                       ELSE current_target_ledger[1]
                  ELSE None
         ELSE pot
    ELSE None

\* Mutant of StandardSelection: the tracked object is kept when nothing
\* meets the criteria.
StandardSelectionKeeping(tdf, pot) ==
    IF tdf # <<>>
    THEN IF tracked_object # None
         THEN LET current_target_ledger ==
                      SelectSeq(tdf, LAMBDA x : x.name = tracked_object.name)
              IN  IF current_target_ledger # <<>>
                  THEN IF distance_improvement_exceeds(
                              current_target_ledger[1], pot)
                       THEN pot
                       ELSE current_target_ledger[1]
                  ELSE pot
         ELSE pot
    ELSE tracked_object

\* Mutant of StandardSelection: when the tracked object stays, the row kept is
\* the one retained from the earlier cycle.
StandardSelectionRetaining(tdf, pot) ==
    IF tdf # <<>>
    THEN IF tracked_object # None
         THEN LET current_target_ledger ==
                      SelectSeq(tdf, LAMBDA x : x.name = tracked_object.name)
              IN  IF current_target_ledger # <<>>
                  THEN IF distance_improvement_exceeds(
                              current_target_ledger[1], pot)
                       THEN pot
                       ELSE tracked_object
                  ELSE pot
         ELSE pot
    ELSE None

\* The standard branch, for the potential target pot that the sort put first.
StandardSelection(tdf, pot) ==
    IF tdf # <<>>
    THEN IF tracked_object # None
         THEN LET current_target_ledger ==
                      SelectSeq(tdf, LAMBDA x : x.name = tracked_object.name)
              IN  IF current_target_ledger # <<>>
                  THEN IF distance_improvement_exceeds(
                              current_target_ledger[1], pot)
                       THEN pot
                       ELSE current_target_ledger[1]
                  ELSE pot
         ELSE pot
    ELSE None

\* The potential targets the evaluation of df can pick (None when the
\* standard branch is not taken or nothing meets the criteria).
PotentialChoices(df) ==
    IF Truthy(override_object) \/ target_ledger_df(df) = <<>>
    THEN {None}
    ELSE potential_targets(target_ledger_df(df))

\* tracked_object and override_object after the selection over df.
Resolve(df, pot) ==
    IF Truthy(override_object)
    THEN OverrideSelection(df)
    ELSE [tracked |-> StandardSelection(target_ledger_df(df), pot),
          override |-> override_object]

\* The data of the "Selected Object" payload: the index of the tracked row
\* and the columns read from it.
Payload(x) ==
    [name |-> x.name, altitude |-> x.altitude,
     relative_distance |-> x.relative_distance,
     camera_tilt |-> x.camera_tilt, camera_pan |-> x.camera_pan,
     distance_3d |-> x.distance_3d]

\* Mutant of SelectedObject: the message is built from the row that was
\* tracked when the callback started.
SelectedObjectPrevious(tracked) ==
    [topic |-> "object_topic",
     data |-> IF tracked_object # None
              THEN <<Payload(tracked_object)>>
              ELSE <<>>]

\* The "Selected Object" message: the payload of the tracked row, or an empty
\* object.
SelectedObject(tracked) ==
    [topic |-> "object_topic",
     data |-> IF tracked # None THEN <<Payload(tracked)>> ELSE <<>>]

PrioritizedLedger(df) ==
    [topic |-> "prioritized_ledger_topic", data |-> df]

\* ------------------------------------------------------------------ messages

ConfigKeys == {"min_tilt", "max_tilt", "min_altitude", "max_altitude"}

ConfigValues(k) ==
    CASE k = "min_tilt" -> MinTilts
      [] k = "max_tilt" -> MaxTilts
      [] k = "min_altitude" -> MinAltitudes
      [] k = "max_altitude" -> MaxAltitudes

\* The "skyscan-c2" sections a configuration message can carry: any subset of
\* the four keys.
ConfigSections ==
    UNION { { f \in [K -> MinTilts \cup MaxTilts \cup MinAltitudes \cup MaxAltitudes] :
                  \A k \in K : f[k] \in ConfigValues(k) } :
            K \in { S \in SUBSET ConfigKeys : Cardinality(S) <= MaxConfigKeys } }

ConfigMessages ==
    {[has_section |-> FALSE, section |-> <<>>]}
        \cup { [has_section |-> TRUE, section |-> f] : f \in ConfigSections }

\* Mutant of Get: a key that is not in the dict reads as zero.
GetOrZero(d, key, default) == IF key \in DOMAIN d THEN d[key] ELSE 0

\* dict.get(key, default)
Get(d, key, default) == IF key \in DOMAIN d THEN d[key] ELSE default

\* The ledger topic carries an ObjectLedger, here with all its columns, and
\* the manual-override topic an ObjectIDOverride.
SelectionMessages ==
    { [keys |-> {"ObjectLedger"}, ObjectLedger |-> l, columns |-> LedgerColumns,
       ObjectIDOverride |-> NoneStr] : l \in Ledgers }
    \cup { [keys |-> {"ObjectIDOverride"}, ObjectLedger |-> <<>>,
            columns |-> LedgerColumns, ObjectIDOverride |-> o] :
          o \in OverrideValues }

\* ------------------------------------------------------------------- actions

Init ==
    /\ min_tilt \in MinTilts
    /\ max_tilt \in MaxTilts
    /\ min_altitude \in MinAltitudes
    /\ max_altitude \in MaxAltitudes
    /\ object_distance_threshold \in DistanceThresholds
    /\ distance_improvement_threshold \in ImprovementThresholds
    /\ occlusion_mapping_enabled = FALSE
    /\ occlusion_mapping = <<>>
    /\ lead_time \in LeadTimes
    /\ override_object = NoneStr
    /\ tracked_object = None
    /\ published = <<>>
    /\ event = [callback |-> "init", ledger |-> FALSE, evaluated |-> FALSE,
                error |-> FALSE, signal |-> FALSE, missing |-> {},
                index |-> <<>>, id |-> NoneStr]
    /\ tracked0 = NoneStr
    /\ override0 = NoneStr
    /\ potential_target = None
    /\ probe = <<>>

\* Mutant of _config_callback: an update of the configuration also drops the
\* tracked object and the override.
_config_callback_resetting(msg) ==
    /\ IF msg.has_section
       THEN /\ min_tilt' = Get(msg.section, "min_tilt", min_tilt)
            /\ max_tilt' = Get(msg.section, "max_tilt", max_tilt)
            /\ min_altitude' = Get(msg.section, "min_altitude", min_altitude)
            /\ max_altitude' = Get(msg.section, "max_altitude", max_altitude)
            /\ tracked_object' = None
            /\ override_object' = NoneStr
       ELSE UNCHANGED <<config, tracked_object, override_object>>
    /\ published' = <<>>
    /\ event' = [callback |-> "config", ledger |-> FALSE, evaluated |-> FALSE,
                 error |-> FALSE, signal |-> FALSE, missing |-> {},
                 index |-> <<>>, id |-> NoneStr]
    /\ tracked0' = tracked_object.name
    /\ override0' = override_object
    /\ potential_target' = None
    /\ UNCHANGED fixed

_config_callback(msg) ==
    /\ IF msg.has_section
       THEN /\ min_tilt' = Get(msg.section, "min_tilt", min_tilt)
            /\ max_tilt' = Get(msg.section, "max_tilt", max_tilt)
            /\ min_altitude' = Get(msg.section, "min_altitude", min_altitude)
            /\ max_altitude' = Get(msg.section, "max_altitude", max_altitude)
       ELSE UNCHANGED config
    /\ published' = <<>>
    /\ event' = [callback |-> "config", ledger |-> FALSE, evaluated |-> FALSE,
                 error |-> FALSE, signal |-> FALSE, missing |-> {},
                 index |-> <<>>, id |-> NoneStr]
    /\ tracked0' = tracked_object.name
    /\ override0' = override_object
    /\ potential_target' = None
    /\ UNCHANGED <<fixed, override_object, tracked_object>>

\* The columns the callback reads by name while it annotates the frame; the
\* KeyError of a missing one ends the evaluation before the selection.
AnnotationKeys == {"timestamp", "latitude", "longitude", "altitude"}

\* Mutant of StoredOverride: the override signal is stored inside the try
\* statement, and lost with a caught error.
StoredOverrideInsideTry(msg, resolved, caught) ==
    IF "ObjectIDOverride" \in msg.keys /\ ~caught
    THEN msg.ObjectIDOverride
    ELSE resolved

\* override_object at the end of the callback, given the one the evaluation
\* resolved: the assignment of the override signal follows the try statement,
\* so it runs whether or not an error was caught.
StoredOverride(msg, resolved, caught) ==
    IF "ObjectIDOverride" \in msg.keys
    THEN msg.ObjectIDOverride
    ELSE resolved

\* The whole callback.  A ledger that is not empty is annotated, the selection
\* is resolved and the two messages are published; a KeyError on the way
\* (a column missing while annotating, or while the Selected Object payload
\* of a tracked row is built) is caught after the publications, so nothing is
\* published, and what was assigned before stays assigned.  The override
\* signal is stored after the try statement.
_target_selection_callback(msg, pot) ==
    LET df == object_ledger_df(msg)
        ledger == "ObjectLedger" \in msg.keys
        evaluated == ledger /\ Len(df) > 0
        annotated == evaluated /\ AnnotationKeys \subseteq msg.columns
        signal == "ObjectIDOverride" \in msg.keys
        resolved == IF annotated
                    THEN Resolve(df, pot)
                    ELSE [tracked |-> tracked_object, override |-> override_object]
        completed ==
            /\ annotated
            /\ resolved.tracked # None => LedgerColumns \subseteq msg.columns
    IN  /\ tracked_object' = resolved.tracked
        /\ override_object' =
               StoredOverride(msg, resolved.override, evaluated /\ ~completed)
        /\ published' =
               IF completed
               THEN <<SelectedObject(resolved.tracked), PrioritizedLedger(df)>>
               ELSE <<>>
        /\ event' = [callback |-> "target_selection", ledger |-> ledger,
                     evaluated |-> evaluated,
                     error |-> evaluated /\ ~completed, signal |-> signal,
                     missing |-> IF ledger
                                 THEN LedgerColumns \ msg.columns
                                 ELSE {},
                     index |-> IF ledger
                               THEN [i \in DOMAIN msg.ObjectLedger |->
                                        msg.ObjectLedger[i].name]
                               ELSE <<>>,
                     id |-> IF signal THEN msg.ObjectIDOverride ELSE NoneStr]
        /\ tracked0' = tracked_object.name
        /\ override0' = override_object
        /\ potential_target' = IF annotated THEN pot ELSE None
        /\ UNCHANGED <<config, fixed>>

ConfigEvent ==
    \E msg \in ConfigMessages : _config_callback(msg) /\ UNCHANGED probe

SelectionEvent ==
    \E msg \in SelectionMessages :
        \E pot \in PotentialChoices(object_ledger_df(msg)) :
            /\ _target_selection_callback(msg, pot)
            /\ UNCHANGED probe

Next == ConfigEvent \/ SelectionEvent

Spec == Init /\ [][Next]_vars

\* The gate specification: the constructor's arguments range over the gate
\* domains, and every message is a ledger of one row.
InitGate ==
    /\ min_tilt \in GateMinTilts
    /\ max_tilt \in GateMaxTilts
    /\ min_altitude \in GateMinAltitudes
    /\ max_altitude \in GateMaxAltitudes
    /\ object_distance_threshold \in DistanceThresholds
    /\ distance_improvement_threshold = [num |-> 1, den |-> 10]
    /\ occlusion_mapping_enabled \in BOOLEAN
    /\ occlusion_mapping \in
           (IF occlusion_mapping_enabled THEN OcclusionMappings ELSE {<<>>})
    /\ lead_time \in LeadTimes
    /\ override_object = NoneStr
    /\ tracked_object = None
    /\ published = <<>>
    /\ event = [callback |-> "init", ledger |-> FALSE, evaluated |-> FALSE,
                error |-> FALSE, signal |-> FALSE, missing |-> {},
                index |-> <<>>, id |-> NoneStr]
    /\ tracked0 = NoneStr
    /\ override0 = NoneStr
    /\ potential_target = None
    /\ probe = <<>>

GateEvent ==
    \E x \in GateRows :
        LET msg == [keys |-> {"ObjectLedger"}, ObjectLedger |-> <<x>>,
                    columns |-> LedgerColumns, ObjectIDOverride |-> NoneStr]
        IN  \E pot \in PotentialChoices(object_ledger_df(msg)) :
                /\ _target_selection_callback(msg, pot)
                /\ UNCHANGED probe

NextGate == GateEvent

SpecGate == InitGate /\ [][NextGate]_vars

\* The fault specification: ledgers whose frame lacks at most one of the
\* columns the callback reads by name, alone or together with an override id
\* in the same payload, under a Config that admits the rows and, with
\* min_tilt 0, the zero geometry.
FaultLedgers ==
    { l \in Ledgers : \A i \in DOMAIN l : l[i].relative_distance <= 10 }

FaultColumns == {LedgerColumns} \cup { LedgerColumns \ {c} : c \in LedgerColumns }

FaultMessages ==
    { [keys |-> {"ObjectLedger"}, ObjectLedger |-> l, columns |-> c,
       ObjectIDOverride |-> NoneStr] : l \in FaultLedgers, c \in FaultColumns }
    \cup { [keys |-> {"ObjectLedger", "ObjectIDOverride"}, ObjectLedger |-> l,
            columns |-> c, ObjectIDOverride |-> "b"] :
          l \in FaultLedgers, c \in FaultColumns }

InitFault ==
    /\ min_tilt \in {0, 1}
    /\ max_tilt = 1
    /\ min_altitude = 1
    /\ max_altitude = 1
    /\ object_distance_threshold \in DistanceThresholds
    /\ distance_improvement_threshold = [num |-> 1, den |-> 10]
    /\ occlusion_mapping_enabled = FALSE
    /\ occlusion_mapping = <<>>
    /\ lead_time \in LeadTimes
    /\ override_object = NoneStr
    /\ tracked_object = None
    /\ published = <<>>
    /\ event = [callback |-> "init", ledger |-> FALSE, evaluated |-> FALSE,
                error |-> FALSE, signal |-> FALSE, missing |-> {},
                index |-> <<>>, id |-> NoneStr]
    /\ tracked0 = NoneStr
    /\ override0 = NoneStr
    /\ potential_target = None
    /\ probe = <<>>

FaultEvent ==
    \E msg \in FaultMessages :
        \E pot \in PotentialChoices(object_ledger_df(msg)) :
            /\ _target_selection_callback(msg, pot)
            /\ UNCHANGED probe

NextFault == FaultEvent

SpecFault == InitFault /\ [][NextFault]_vars

\* The configuration specification: every "skyscan-c2" section over the four
\* keys, alone or together with keys the callback does not read, and the
\* message without the section; probe records the message and the attributes
\* as they were when the callback started.
UnreadConfigKeys ==
    {"lead_time", "object_distance_threshold", "distance_improvement_threshold"}

ProbeConfigSections ==
    UNION { { f \in [K \cup U -> 0..2] :
                  /\ \A k \in K : f[k] \in ConfigValues(k)
                  /\ \A k \in U : f[k] = 0 } :
            K \in SUBSET ConfigKeys, U \in {{}, UnreadConfigKeys} }

ProbeConfigMessages ==
    {[has_section |-> FALSE, section |-> <<>>]}
        \cup { [has_section |-> TRUE, section |-> f] : f \in ProbeConfigSections }

ProbeConfigEvent ==
    \E msg \in ProbeConfigMessages :
        /\ _config_callback(msg)
        /\ probe' = [msg |-> msg,
                     config0 |-> [min_tilt |-> min_tilt, max_tilt |-> max_tilt,
                                  min_altitude |-> min_altitude,
                                  max_altitude |-> max_altitude],
                     fixed0 |-> fixed]

NextConfig == ProbeConfigEvent

SpecConfig == Init /\ [][NextConfig]_vars

\* The cycle specification: the annotation of one row taken statement by
\* statement, each flag reading the attributes of the object when its
\* statement runs, next to the configuration callback.  probe is the running
\* callback: its position, its row, the Config it started under and the
\* flags it has computed.
ConfigRecord ==
    [min_tilt |-> min_tilt, max_tilt |-> max_tilt,
     min_altitude |-> min_altitude, max_altitude |-> max_altitude]

\* Mutant of Dispatchable: a message is handed to its callback while another
\* callback is running.
DispatchableAnytime == TRUE

\* Both callbacks are registered on the one MQTT client, whose network loop
\* calls them one message at a time: a callback starts only when none is
\* running.
Dispatchable == probe.pc \in {"idle", "done"}

InitCycle ==
    /\ min_tilt \in MinTilts
    /\ max_tilt \in MaxTilts
    /\ min_altitude \in MinAltitudes
    /\ max_altitude \in MaxAltitudes
    /\ object_distance_threshold \in DistanceThresholds
    /\ distance_improvement_threshold = [num |-> 1, den |-> 10]
    /\ occlusion_mapping_enabled = FALSE
    /\ occlusion_mapping = <<>>
    /\ lead_time \in LeadTimes
    /\ override_object = NoneStr
    /\ tracked_object = None
    /\ published = <<>>
    /\ event = [callback |-> "init", ledger |-> FALSE, evaluated |-> FALSE,
                error |-> FALSE, signal |-> FALSE, missing |-> {},
                index |-> <<>>, id |-> NoneStr]
    /\ tracked0 = NoneStr
    /\ override0 = NoneStr
    /\ potential_target = None
    /\ probe = [pc |-> "idle"]

CycleStart ==
    /\ Dispatchable
    /\ \E x \in Rows :
           probe' = [pc |-> "tilt_fail", x |-> x, config0 |-> ConfigRecord,
                     tilt_fail |-> FALSE, min_altitude_fail |-> FALSE,
                     max_altitude_fail |-> FALSE]
    /\ UNCHANGED <<config, fixed, override_object, tracked_object, published,
                   event, tracked0, override0, potential_target>>

CycleTiltFail ==
    /\ probe.pc = "tilt_fail"
    /\ probe' = [probe EXCEPT !.pc = "min_altitude_fail",
                              !.tilt_fail = tilt_fail(probe.x)]
    /\ UNCHANGED <<config, fixed, override_object, tracked_object, published,
                   event, tracked0, override0, potential_target>>

CycleMinAltitudeFail ==
    /\ probe.pc = "min_altitude_fail"
    /\ probe' = [probe EXCEPT !.pc = "max_altitude_fail",
                              !.min_altitude_fail = min_altitude_fail(probe.x)]
    /\ UNCHANGED <<config, fixed, override_object, tracked_object, published,
                   event, tracked0, override0, potential_target>>

CycleMaxAltitudeFail ==
    /\ probe.pc = "max_altitude_fail"
    /\ probe' = [probe EXCEPT !.pc = "done",
                              !.max_altitude_fail = max_altitude_fail(probe.x)]
    /\ UNCHANGED <<config, fixed, override_object, tracked_object, published,
                   event, tracked0, override0, potential_target>>

CycleConfig ==
    /\ Dispatchable
    /\ \E msg \in ConfigMessages : _config_callback(msg)
    /\ UNCHANGED probe

NextCycle ==
    \/ CycleStart
    \/ CycleTiltFail
    \/ CycleMinAltitudeFail
    \/ CycleMaxAltitudeFail
    \/ CycleConfig

SpecCycle == InitCycle /\ [][NextCycle]_vars

\* The prediction specification: the part of _calculate_camera_angles that
\* leads the position of the object, applied to positions and velocities in
\* the ENz frame, at evaluation times before and after the timestamp of the
\* row.  Tracks are the headings whose sine and cosine are integers.
PredictLeadTimes == 0..2

PredictTimes == {3}

PredictPositions == {<<0, 0, 0>>, <<3, -2, 5>>}

PredictData ==
    [timestamp : {0, 5}, track : {0, 90, 180, 270},
     horizontal_velocity : {0, 2}, vertical_velocity : {-1, 0, 1}]

\* math.sin(math.radians(track)) and math.cos(math.radians(track))
Sin(track) ==
    CASE track = 0 -> 0 [] track = 90 -> 1 [] track = 180 -> 0 [] track = 270 -> -1

Cos(track) ==
    CASE track = 0 -> 1 [] track = 90 -> 0 [] track = 180 -> -1 [] track = 270 -> 0

\* Mutant of lead_time_at: a lead time below zero is taken as zero.
lead_time_clamped(timestamp_o, time) ==
    IF lead_time + (time - timestamp_o) < 0
    THEN 0
    ELSE lead_time + (time - timestamp_o)

\* The local lead_time: self.lead_time plus the age of the object message.
lead_time_at(timestamp_o, time) == lead_time + (time - timestamp_o)

v_ENz_o_0_t(data) ==
    <<data.horizontal_velocity * Sin(data.track),
      data.horizontal_velocity * Cos(data.track),
      data.vertical_velocity>>

r_ENz_o_1_t(r_ENz_o_0_t, data, time) ==
    [i \in 1..3 |->
        r_ENz_o_0_t[i]
            + v_ENz_o_0_t(data)[i] * lead_time_at(data.timestamp, time)]

InitPredict ==
    /\ min_tilt \in {1}
    /\ max_tilt \in {1}
    /\ min_altitude \in {1}
    /\ max_altitude \in {1}
    /\ object_distance_threshold \in DistanceThresholds
    /\ distance_improvement_threshold = [num |-> 1, den |-> 10]
    /\ occlusion_mapping_enabled = FALSE
    /\ occlusion_mapping = <<>>
    /\ lead_time \in PredictLeadTimes
    /\ override_object = NoneStr
    /\ tracked_object = None
    /\ published = <<>>
    /\ event = [callback |-> "init", ledger |-> FALSE, evaluated |-> FALSE,
                error |-> FALSE, signal |-> FALSE, missing |-> {},
                index |-> <<>>, id |-> NoneStr]
    /\ tracked0 = NoneStr
    /\ override0 = NoneStr
    /\ potential_target = None
    /\ probe = [step |-> "init"]

PredictEvent ==
    /\ \E r_ENz_o_0_t \in PredictPositions, data \in PredictData,
          time \in PredictTimes :
           probe' = [step |-> "predicted", r_ENz_o_0_t |-> r_ENz_o_0_t,
                     data |-> data, time |-> time,
                     v_ENz_o_0_t |-> v_ENz_o_0_t(data),
                     r_ENz_o_1_t |-> r_ENz_o_1_t(r_ENz_o_0_t, data, time)]
    /\ UNCHANGED <<config, fixed, override_object, tracked_object, published,
                   event, tracked0, override0, potential_target>>

NextPredict == PredictEvent

SpecPredict == InitPredict /\ [][NextPredict]_vars

\* ------------------------------------------------- the cycle, as observed

\* The last callback evaluated a non-empty ledger, to the end.
Evaluated ==
    event.callback = "target_selection" /\ event.evaluated /\ ~event.error

\* The annotated ledger and the selected target the cycle published.
CycleLedger == published[2].data

CycleSelected == published[1].data

\* The ledger as it came in: index, altitude and geometry of each row.
CycleInput ==
    [i \in DOMAIN CycleLedger |->
        <<CycleLedger[i].name, CycleLedger[i].altitude,
          CycleLedger[i].relative_distance, CycleLedger[i].camera_pan,
          CycleLedger[i].camera_tilt>>]

\* Override was active when the cycle started.
OverrideActive0 == override0 # NoneStr /\ override0 # ""

\* x and y are the same row of the ledger, whatever marks (target,
\* selectable) the selection has put on its copies of it.
SameRow(x, y) ==
    /\ x # None
    /\ y # None
    /\ [x EXCEPT !.target = FALSE, !.selectable = FALSE]
           = [y EXCEPT !.target = FALSE, !.selectable = FALSE]

InLedger(id) == \E i \in DOMAIN CycleLedger : CycleLedger[i].name = id

\* The pointing-angle gate: the range check without an occlusion mapping,
\* the flag the cycle computed with one.
PassesPointingGate(x) ==
    IF occlusion_mapping_enabled
    THEN ~x.tilt_fail
    ELSE min_tilt <= x.camera_tilt /\ x.camera_tilt <= max_tilt

\* The four gates, from the row's values and the Config of the cycle.
PassesAllGates(x) ==
    /\ PassesPointingGate(x)
    /\ ~(x.altitude < min_altitude)
    /\ ~(x.altitude > max_altitude)
    /\ x.relative_distance <= object_distance_threshold

\* Positions, in the cycle's ledger, of the eligible rows and of the nearest
\* ones among them.
Eligible == { i \in DOMAIN CycleLedger : PassesAllGates(CycleLedger[i]) }

Nearest ==
    { i \in Eligible :
        \A j \in Eligible :
            CycleLedger[i].relative_distance <= CycleLedger[j].relative_distance }

FailsEveryGate(x) ==
    /\ x.tilt_fail
    /\ x.min_altitude_fail
    /\ x.max_altitude_fail
    /\ x.relative_distance > object_distance_threshold

\* ----------------------------------------------------------------- claims

\* C1: when Override is active and the override id is absent from the
\* evaluated ledger, Override is cleared and the selection published for that
\* same ledger is the result of standard gated selection: an eligible row
\* (none only if no row is eligible).
C1_OverrideExpiryFallsBack ==
    (Evaluated /\ OverrideActive0 /\ ~InLedger(override0)) =>
        /\ ~event.signal => override_object = NoneStr
        /\ Eligible = {} => CycleSelected = <<>>
        /\ Eligible # {} =>
               /\ CycleSelected # <<>>
               /\ \E i \in Eligible : CycleSelected[1] = Payload(CycleLedger[i])

\* C2: whenever Override is active and the override id is in the evaluated
\* ledger, the selected target published for that ledger is the row with that
\* id, whatever its gate flags and whatever was tracked before.
C2_OverridePrecedence ==
    (Evaluated /\ OverrideActive0 /\ InLedger(override0)) =>
        /\ CycleSelected # <<>>
        /\ CycleSelected[1].name = override0
        /\ \E i \in DOMAIN CycleLedger :
               /\ CycleSelected[1] = Payload(CycleLedger[i])
               /\ SameRow(tracked_object, CycleLedger[i])

\* Witness of C2: the override row fails every gate, something else was
\* tracked, and the override row is published.
C2_Witness ==
    /\ Evaluated /\ OverrideActive0 /\ InLedger(override0)
    /\ tracked0 # NoneStr /\ tracked0 # override0
    /\ CycleSelected # <<>>
    /\ CycleSelected[1].name = override0
    /\ \E i \in DOMAIN CycleLedger :
           /\ CycleLedger[i].name = override0
           /\ FailsEveryGate(CycleLedger[i])

\* C3: with no override active, if the tracked object X is still eligible and
\* c is the nearest eligible row (the potential target), the tracked object
\* after the cycle is c when (distance(X) - distance(c)) / distance(X) is
\* strictly greater than the threshold, and stays X otherwise (an improvement
\* equal to the threshold included).
C3_Hysteresis ==
    (/\ Evaluated /\ ~OverrideActive0 /\ tracked0 # NoneStr
     /\ \E i \in Eligible : CycleLedger[i].name = tracked0) =>
        \E i \in Eligible, c \in Nearest :
            /\ CycleLedger[i].name = tracked0
            /\ SameRow(CycleLedger[c], potential_target)
            /\ LET dX == CycleLedger[i].relative_distance
                   dc == CycleLedger[c].relative_distance
               IN  SameRow(tracked_object,
                           IF (dX - dc) * distance_improvement_threshold.den
                                  > distance_improvement_threshold.num * dX
                           THEN CycleLedger[c]
                           ELSE CycleLedger[i])

\* Witness of C3: the improvement equals a positive threshold exactly, and the
\* tracked object stays X although c is another, nearer row.
C3_Witness ==
    /\ Evaluated /\ ~OverrideActive0 /\ tracked0 # NoneStr
    /\ distance_improvement_threshold.num > 0
    /\ \E i \in Eligible, c \in Nearest :
           /\ CycleLedger[i].name = tracked0
           /\ SameRow(CycleLedger[c], potential_target)
           /\ CycleLedger[c].name # tracked0
           /\ (CycleLedger[i].relative_distance - CycleLedger[c].relative_distance)
                  * distance_improvement_threshold.den
              = distance_improvement_threshold.num * CycleLedger[i].relative_distance
           /\ SameRow(tracked_object, CycleLedger[i])

\* C4: with no override active, if the tracked object X is not eligible in the
\* evaluated ledger (it failed a gate or is missing) and some row is eligible,
\* the tracked object after the cycle is a nearest eligible row, whatever the
\* distance-improvement threshold.
C4_IneligibleTargetReplaced ==
    (/\ Evaluated /\ ~OverrideActive0 /\ tracked0 # NoneStr
     /\ ~(\E i \in Eligible : CycleLedger[i].name = tracked0)
     /\ Eligible # {}) =>
        /\ \E c \in Nearest : SameRow(tracked_object, CycleLedger[c])
        /\ tracked_object = potential_target
        /\ tracked_object # None
        /\ CycleSelected = <<Payload(tracked_object)>>

\* Witness of C4: X is in the ledger but fails a gate, and the row that
\* replaces it improves on X's distance by less than the threshold.
C4_Witness ==
    /\ Evaluated /\ ~OverrideActive0 /\ tracked0 # NoneStr
    /\ InLedger(tracked0)
    /\ ~(\E i \in Eligible : CycleLedger[i].name = tracked0)
    /\ \E c \in Nearest, i \in DOMAIN CycleLedger :
           /\ SameRow(tracked_object, CycleLedger[c])
           /\ CycleLedger[i].name = tracked0
           /\ (CycleLedger[i].relative_distance - CycleLedger[c].relative_distance)
                  * distance_improvement_threshold.den
              < distance_improvement_threshold.num * CycleLedger[i].relative_distance

\* C5: with no override active, after evaluating a non-empty ledger in which
\* no row passes all four gates, nothing is tracked and the published selected
\* target is empty, whatever was tracked before.
C5_NothingEligibleIdle ==
    (Evaluated /\ ~OverrideActive0 /\ Eligible = {}) =>
        /\ tracked_object = None
        /\ CycleSelected = <<>>

\* Witness of C5: an object was tracked, it is still in the ledger, and the
\* cycle ends Idle.
C5_Witness ==
    /\ Evaluated /\ ~OverrideActive0 /\ Eligible = {}
    /\ tracked0 # NoneStr /\ InLedger(tracked0)
    /\ tracked_object = None
    /\ CycleSelected = <<>>

\* C6: with no override active and nothing tracked, evaluating a ledger with
\* eligible rows moves to tracking the eligible row of minimum distance, the
\* first one in ledger order when several share the minimum.
C6_IdleTakesFirstNearest ==
    (Evaluated /\ ~OverrideActive0 /\ tracked0 = NoneStr /\ Eligible # {}) =>
        \E c \in Nearest :
            /\ \A j \in Nearest : c <= j
            /\ SameRow(tracked_object, CycleLedger[c])

\* C7: in every cycle evaluated with no override active, a non-empty published
\* selected target passes all four gates under the Config of that cycle.
C7_SelectedPassesGates ==
    (Evaluated /\ ~OverrideActive0 /\ CycleSelected # <<>>) =>
        PassesAllGates(CycleSelected[1])

\* Witness of C7: a target is published by standard selection while another
\* row of the ledger fails a gate.
C7_Witness ==
    /\ Evaluated /\ ~OverrideActive0 /\ CycleSelected # <<>>
    /\ PassesAllGates(CycleSelected[1])
    /\ \E i \in DOMAIN CycleLedger : i \notin Eligible

\* C8: with Config unchanged and no override signal in between, evaluating the
\* same non-empty ledger twice in succession publishes the same selected
\* target both times, from every starting selection state.
C8_NoOscillation ==
    [][(/\ Evaluated /\ ~event.signal
        /\ Evaluated' /\ CycleInput' = CycleInput
        /\ config' = config)
       => CycleSelected' = CycleSelected]_vars

\* C9: without an occlusion mapping the pointing-angle gate passes exactly
\* when min_tilt <= camera tilt <= max_tilt; with min_tilt <= max_tilt a tilt
\* equal to either bound passes, and a tilt one unit outside fails.
C9_TiltRangeInclusive ==
    (Evaluated /\ ~occlusion_mapping_enabled) =>
        \A i \in DOMAIN CycleLedger :
            LET tilt == CycleLedger[i].camera_tilt
                pass == ~CycleLedger[i].tilt_fail
            IN  /\ pass <=> (min_tilt <= tilt /\ tilt <= max_tilt)
                /\ (min_tilt <= max_tilt /\ tilt \in {min_tilt, max_tilt}) => pass
                /\ tilt \in {min_tilt - 1, max_tilt + 1} => ~pass

\* Witness of C9: a tilt equal to min_tilt, below max_tilt, passes.
C9_Witness ==
    /\ Evaluated /\ ~occlusion_mapping_enabled
    /\ min_tilt < max_tilt
    /\ CycleLedger[1].camera_tilt = min_tilt
    /\ ~CycleLedger[1].tilt_fail

\* C10: with an occlusion mapping configured, a row whose camera tilt is below
\* min_tilt fails the pointing-angle gate, for every pan and every mapping.
C10_BelowMinTiltFails ==
    (Evaluated /\ occlusion_mapping_enabled) =>
        \A i \in DOMAIN CycleLedger :
            CycleLedger[i].camera_tilt < min_tilt => CycleLedger[i].tilt_fail

\* C11: with a non-empty occlusion mapping the pointing-angle gate of a row is
\* decided by exactly one point of the mapping, the first in mapping order
\* whose azimuth exceeds the camera pan, or the last point when none does: the
\* row passes exactly when its tilt is strictly below max_tilt and strictly
\* above that point's elevation, whatever the later points are.
C11_OneProfileEntryDecides ==
    (Evaluated /\ occlusion_mapping_enabled /\ Len(occlusion_mapping) > 0) =>
        \A i \in DOMAIN CycleLedger :
            LET pan == CycleLedger[i].camera_pan
                tilt == CycleLedger[i].camera_tilt
                exceeding == { k \in DOMAIN occlusion_mapping :
                                  occlusion_mapping[k].azimuth > pan }
                entry == IF exceeding = {}
                         THEN Len(occlusion_mapping)
                         ELSE CHOOSE k \in exceeding :
                                  \A j \in exceeding : k <= j
            IN  ~CycleLedger[i].tilt_fail <=>
                    /\ tilt < max_tilt
                    /\ tilt > occlusion_mapping[entry].elevation

\* Witness of C11: the first point whose azimuth exceeds the pan fails a row
\* that is below max_tilt and above the elevation of a later point.
C11_Witness ==
    /\ Evaluated /\ occlusion_mapping_enabled /\ Len(occlusion_mapping) > 1
    /\ occlusion_mapping[1].azimuth > CycleLedger[1].camera_pan
    /\ CycleLedger[1].camera_tilt < max_tilt
    /\ CycleLedger[1].camera_tilt > occlusion_mapping[2].elevation
    /\ occlusion_mapping[2].azimuth > CycleLedger[1].camera_pan
    /\ CycleLedger[1].tilt_fail

\* C12: a record that lacks a required geometry field never aborts the batch:
\* whenever a non-empty ledger whose rows lack one of timestamp, latitude,
\* longitude, altitude, track, horizontal_velocity, vertical_velocity is
\* evaluated, the cycle publishes the selected-target message and the
\* annotated ledger, in which those rows have zero pan, zero tilt and zero
\* line-of-sight distance.
C12_MalformedRecordTolerated ==
    (/\ event.callback = "target_selection" /\ event.evaluated
     /\ event.missing \cap RequiredKeys # {}) =>
        /\ Len(published) = 2
        /\ published[1].topic = "object_topic"
        /\ published[2].topic = "prioritized_ledger_topic"
        /\ published[2].data # <<>>
        /\ \A i \in DOMAIN published[2].data :
               /\ published[2].data[i].camera_pan = 0
               /\ published[2].data[i].camera_tilt = 0
               /\ published[2].data[i].distance_3d = 0

\* C13: when the tracked object resolved by a cycle lacks a field the
\* selected-target payload needs (object_type, flight, squawk, category,
\* emergency), the cycle still publishes both messages, the first for that
\* object.
C13_PayloadFieldDefaulted ==
    (/\ event.callback = "target_selection" /\ event.evaluated
     /\ event.missing # {} /\ event.missing \cap RequiredKeys = {}
     /\ tracked_object # None) =>
        /\ Len(published) = 2
        /\ published[1] = SelectedObject(tracked_object)
        /\ published[2].topic = "prioritized_ledger_topic"

C16_AnnotatedLedgerComplete ==
    Evaluated =>
        /\ DOMAIN CycleLedger = DOMAIN event.index
        /\ \A i \in DOMAIN CycleLedger : CycleLedger[i].name = event.index[i]
        /\ \A i \in DOMAIN CycleLedger :
               {"tilt_fail", "min_altitude_fail", "max_altitude_fail"}
                   \subseteq DOMAIN CycleLedger[i]
        /\ \E c \in DOMAIN CycleLedger[1] \
                     {"name", "altitude", "camera_pan", "camera_tilt",
                      "distance_3d", "relative_distance", "tilt_fail",
                      "min_altitude_fail", "max_altitude_fail"} :
               \/ \A i \in DOMAIN CycleLedger :
                      CycleLedger[i][c] =
                          (CycleLedger[i].relative_distance
                               <= object_distance_threshold)
               \/ \A i \in DOMAIN CycleLedger :
                      CycleLedger[i][c] =
                          (CycleLedger[i].relative_distance
                               > object_distance_threshold)

\* C17: after an override signal carrying "clear" has been processed, Override
\* is inactive, and the next evaluated ledger is resolved by standard gated
\* selection: its selected target is an eligible row, none only when no row is
\* eligible; it is resolved neither by forced selection nor by the expiry of
\* an override.
C17_ClearDeactivatesOverride ==
    /\ (event.callback = "target_selection" /\ event.signal) =>
           override_object # "clear"
    /\ (Evaluated /\ override0 = "clear") =>
           /\ Eligible = {} => (CycleSelected = <<>> /\ tracked_object = None)
           /\ Eligible # {} =>
                  /\ CycleSelected # <<>>
                  /\ \E i \in Eligible :
                         CycleSelected[1] = Payload(CycleLedger[i])

\* C18: the predicted position in the ENz frame is the position at the fix
\* plus the velocity times the effective lead time, where the effective lead
\* time is the configured lead time plus the age of the fix (evaluation time
\* minus fix timestamp) and the velocity is the ground speed along the track
\* (north for track 0, east for track 90) with the vertical rate; a negative
\* effective lead time is applied as it is; with an effective lead time of
\* zero, or with zero velocity, the predicted position is the position at the
\* fix.
C18_PredictedPosition ==
    probe.step = "predicted" =>
        LET lead == lead_time + (probe.time - probe.data.timestamp)
            speed == probe.data.horizontal_velocity
            east == CASE probe.data.track = 90 -> speed
                      [] probe.data.track = 270 -> 0 - speed
                      [] OTHER -> 0
            north == CASE probe.data.track = 0 -> speed
                       [] probe.data.track = 180 -> 0 - speed
                       [] OTHER -> 0
        IN  /\ probe.r_ENz_o_1_t[1] = probe.r_ENz_o_0_t[1] + east * lead
            /\ probe.r_ENz_o_1_t[2] = probe.r_ENz_o_0_t[2] + north * lead
            /\ probe.r_ENz_o_1_t[3] =
                   probe.r_ENz_o_0_t[3] + probe.data.vertical_velocity * lead
            /\ (lead = 0 \/ (speed = 0 /\ probe.data.vertical_velocity = 0)) =>
                   probe.r_ENz_o_1_t = probe.r_ENz_o_0_t

\* Witness of C18: the timestamp of the fix lies after the evaluation time
\* (effective lead time -2), and the object heading east at 2 m/s and sinking
\* at 1 m/s is predicted 4 m west of its fix and 2 m above it.
C18_Witness ==
    /\ probe.step = "predicted"
    /\ lead_time + (probe.time - probe.data.timestamp) = -2
    /\ probe.data.track = 90 /\ probe.data.horizontal_velocity = 2
    /\ probe.data.vertical_velocity = -1
    /\ probe.r_ENz_o_1_t[1] = probe.r_ENz_o_0_t[1] - 4
    /\ probe.r_ENz_o_1_t[2] = probe.r_ENz_o_0_t[2]
    /\ probe.r_ENz_o_1_t[3] = probe.r_ENz_o_0_t[3] + 2

\* C20: when a ledger with no rows is evaluated while no override is active
\* and an object X is tracked, nothing is eligible, so nothing is tracked
\* afterwards and an empty selected target is published.
C20_EmptyLedgerGoesIdle ==
    (/\ event.callback = "target_selection" /\ event.ledger
     /\ event.index = <<>>
     /\ ~OverrideActive0 /\ tracked0 # NoneStr) =>
        /\ tracked_object = None
        /\ published # <<>>
        /\ published[1] = SelectedObject(None)

\* C21: whenever a cycle publishes a non-empty selected target, its id is the
\* id of a row of the ledger evaluated in that cycle, and its camera pan,
\* camera tilt and distances are the values the cycle computed for that row,
\* not values kept from an earlier cycle; also when hysteresis keeps the
\* tracked object and when Override is active.
C21_SelectedFromThisCycle ==
    (Evaluated /\ CycleSelected # <<>>) =>
        \E i \in DOMAIN CycleLedger :
            /\ CycleSelected[1].name = CycleLedger[i].name
            /\ CycleSelected[1].name = event.index[i]
            /\ CycleSelected[1].camera_pan = CycleLedger[i].camera_pan
            /\ CycleSelected[1].camera_tilt = CycleLedger[i].camera_tilt
            /\ CycleSelected[1].relative_distance = CycleLedger[i].relative_distance
            /\ CycleSelected[1].distance_3d = CycleLedger[i].distance_3d
            /\ CycleSelected[1].altitude = CycleLedger[i].altitude

\* Witness of C21: hysteresis keeps the tracked object although another row
\* is the nearest; the tracked row is this cycle's copy of its row (without
\* the mark of the potential target) and the published target carries this
\* cycle's values.
C21_Witness ==
    /\ Evaluated /\ ~OverrideActive0 /\ CycleSelected # <<>>
    /\ CycleSelected[1].name = tracked0
    /\ potential_target # None
    /\ potential_target.name # tracked0
    /\ ~tracked_object.target
    /\ \E i \in DOMAIN CycleLedger : CycleSelected[1] = Payload(CycleLedger[i])

\* C22: every evaluation of a non-empty ledger that completes without error
\* publishes exactly one selected-target message and then exactly one
\* annotated-ledger message, in that order, and the selected-target message
\* is the tracked object held at the end of the cycle: its payload, or an
\* empty object when nothing is tracked.
C22_OneSelectionThenLedger ==
    Evaluated =>
        /\ Len(published) = 2
        /\ published[1].topic = "object_topic"
        /\ published[2].topic = "prioritized_ledger_topic"
        /\ tracked_object = None => published[1].data = <<>>
        /\ tracked_object # None =>
               published[1].data = <<Payload(tracked_object)>>
        /\ DOMAIN published[2].data = DOMAIN event.index

\* Witness of C22: the cycle switches from one tracked object to another and
\* publishes the payload of the new one, then the ledger.
C22_Witness ==
    /\ Evaluated
    /\ tracked0 # NoneStr
    /\ tracked_object # None
    /\ tracked_object.name # tracked0
    /\ published[1] = [topic |-> "object_topic",
                       data |-> <<Payload(tracked_object)>>]
    /\ published[2].topic = "prioritized_ledger_topic"

\* C23: an override id that is set stays the override through every cycle
\* that evaluates a ledger holding that id, and the selected target of each
\* such cycle is that id; the override changes only when a ledger without
\* that id is evaluated or when an override signal is processed: a
\* configuration update, an empty ledger or the passage of cycles never
\* changes it.
C23_OverridePersists ==
    (OverrideActive0 /\ event.callback # "init") =>
        /\ (Evaluated /\ InLedger(override0)) =>
               /\ CycleSelected # <<>>
               /\ CycleSelected[1].name = override0
               /\ ~event.signal => override_object = override0
        /\ override_object # override0 =>
               \/ event.callback = "target_selection" /\ event.signal
               \/ /\ event.callback = "target_selection" /\ event.evaluated
                  /\ \A i \in DOMAIN event.index : event.index[i] # override0

\* Witness of C23: the override id was already the tracked object when the
\* cycle started, its row fails every gate, and the cycle selects it again
\* and keeps the override.
C23_Witness ==
    /\ Evaluated /\ OverrideActive0 /\ InLedger(override0)
    /\ tracked0 = override0
    /\ override_object = override0
    /\ CycleSelected # <<>>
    /\ CycleSelected[1].name = override0
    /\ \A i \in DOMAIN CycleLedger :
           CycleLedger[i].name = override0 => FailsEveryGate(CycleLedger[i])

\* C24: when one message carries both a ledger and an override id, the ledger
\* is evaluated under the override state that held before the message (the
\* new id does not force the selection of that cycle), and the new id is the
\* override after the callback, to act on the next evaluated ledger, also
\* when the evaluation was aborted by a caught error.
C24_OverrideAfterEvaluation ==
    (event.callback = "target_selection" /\ event.signal /\ event.ledger) =>
        /\ override_object = event.id
        /\ (Evaluated /\ OverrideActive0 /\ InLedger(override0)) =>
               (CycleSelected # <<>> /\ CycleSelected[1].name = override0)
        /\ (Evaluated /\ OverrideActive0 /\ ~InLedger(override0)) =>
               CycleSelected = <<>>
        /\ (Evaluated /\ ~OverrideActive0) =>
               /\ Eligible = {} <=> CycleSelected = <<>>
               /\ CycleSelected # <<>> =>
                      \E c \in Eligible :
                          CycleSelected[1] = Payload(CycleLedger[c])

\* Witness of C24: no override is active, a message carries a ledger and the
\* override id of one of its records; the evaluation completes and selects
\* another record, and the id is the override afterwards.
C24_Witness ==
    /\ Evaluated /\ event.signal
    /\ ~OverrideActive0
    /\ InLedger(event.id)
    /\ CycleSelected # <<>> /\ CycleSelected[1].name # event.id
    /\ override_object = event.id

\* C25: a record whose geometry was degraded to the zero sentinel (pan 0,
\* tilt 0 and line-of-sight distance 0) is never the record that standard
\* selection resolves, whatever the Config, also when min_tilt <= 0 <= max_tilt.
C25_ZeroGeometryNeverChosen ==
    (/\ event.callback = "target_selection" /\ event.evaluated
     /\ AnnotationKeys \cap event.missing = {}
     /\ ~OverrideActive0
     /\ tracked_object # None) =>
        ~(/\ tracked_object.camera_pan = 0
          /\ tracked_object.camera_tilt = 0
          /\ tracked_object.distance_3d = 0)

\* C26: a configuration event leaves the tracked object and the override id
\* as they were and publishes nothing; a selection message that carries an
\* override id and no ledger changes the override id to the one it carries
\* and nothing else: the tracked object and the Config stay as they were and
\* nothing is published.
C26_Frame ==
    [][/\ event'.callback = "config" =>
            /\ tracked_object' = tracked_object
            /\ override_object' = override_object
            /\ published' = <<>>
       /\ (event'.callback = "target_selection" /\ ~event'.ledger
               /\ event'.signal) =>
            /\ override_object' = event'.id
            /\ tracked_object' = tracked_object
            /\ config' = config
            /\ fixed' = fixed
            /\ published' = <<>>]_vars

\* Witness of C26: an override signal without a ledger has arrived while an
\* object was tracked under another override; the override is the one of the
\* signal and the object is still tracked.
C26_Witness ==
    /\ event.callback = "target_selection" /\ ~event.ledger /\ event.signal
    /\ OverrideActive0
    /\ override_object = event.id /\ override_object # override0
    /\ tracked_object # None /\ tracked_object.name = tracked0
    /\ published = <<>>

\* C27: the altitude and distance gates at their boundaries.  An altitude
\* equal to min_altitude does not fail the minimum gate and one equal to
\* max_altitude does not fail the maximum gate, so with
\* min_altitude <= max_altitude an altitude equal to either passes both; a
\* ground distance equal to the threshold passes the distance gate, so a row
\* at these boundaries that passes the pointing gate is selected.  An
\* altitude below min_altitude, an altitude above max_altitude or a distance
\* above the threshold each keep the row from being selected, whatever the
\* other gates say.
C27_AltitudeDistanceBoundaries ==
    Evaluated =>
        \A i \in DOMAIN CycleLedger :
            LET x == CycleLedger[i]
                selected == /\ CycleSelected # <<>>
                            /\ CycleSelected[1] = Payload(x)
            IN  /\ x.altitude = min_altitude => ~x.min_altitude_fail
                /\ x.altitude = max_altitude => ~x.max_altitude_fail
                /\ (/\ min_altitude <= max_altitude
                    /\ x.altitude \in {min_altitude, max_altitude}
                    /\ x.relative_distance = object_distance_threshold
                    /\ ~x.tilt_fail
                    /\ Len(CycleLedger) = 1) => selected
                /\ x.altitude < min_altitude =>
                       x.min_altitude_fail /\ ~selected
                /\ x.altitude > max_altitude =>
                       x.max_altitude_fail /\ ~selected
                /\ x.relative_distance > object_distance_threshold =>
                       ~selected

\* Witness of C27: a row whose altitude equals min_altitude, below
\* max_altitude, and whose distance equals the threshold is selected.
C27_Witness ==
    /\ Evaluated
    /\ min_altitude < max_altitude
    /\ Len(CycleLedger) = 1
    /\ CycleLedger[1].altitude = min_altitude
    /\ CycleLedger[1].relative_distance = object_distance_threshold
    /\ ~CycleLedger[1].min_altitude_fail /\ ~CycleLedger[1].max_altitude_fail
    /\ CycleSelected = <<Payload(CycleLedger[1])>>

====
